---- MODULE Spec2Model ----
(***************************************************************************)
(* Smart Panel Middleware: device connection supervisors (CasparCG, OBS),  *)
(* the playout single-call bookkeeping, the relay command gate and the     *)
(* command router, modelled from the TypeScript sources.                   *)
(*                                                                         *)
(* Node.js runs every callback to completion, so one action is one         *)
(* callback (or the synchronous part of an async function up to its first  *)
(* await that really suspends).  Each service object is one record         *)
(* variable whose fields are the object's fields; a method is an operator  *)
(* from the record before the call to the record after it, so a handler    *)
(* that calls other methods is the composition of their operators.         *)
(***************************************************************************)
EXTENDS Integers, Sequences, FiniteSets, TLC

\* Bounds of the model (not program constants).
MaxCalls == 2       \* playout operations issued through sendCommand
MaxFails == 1       \* connection attempts the environment lets fail
MaxLosses == 1      \* established connections the environment tears down
MaxObsOps == 2      \* OBS operations issued through the adapter
MaxCmds == 1        \* relay commands received by the control channel
MaxMsgLen == 2      \* characters in the message of a status line
MaxStreamCalls == 2 \* calls issued while a stream of status lines arrives
MaxChanges == 2     \* changes of the devices' connected flags
MaxPushes == 1      \* status pushes on their way to the relay at a time

VARIABLES caspar, obs, relay, codec

vars == <<caspar, obs, relay, codec>>

Calls == 1 .. MaxCalls

(***************************************************************************)
(* CasparCGService (src/src/services/CasparCGService.ts, lines 16-303)     *)
(*                                                                         *)
(* Fields of the record:                                                   *)
(*   config            this.config !== null                                *)
(*   connected         this._connected                                     *)
(*   reconnectInterval this.reconnectInterval !== null                     *)
(*   socket            this.socket: "null", or the state of the net.Socket *)
(*                     it refers to: "connecting", "open", "destroyed"     *)
(*   socketTimeout     the socket's 5 s inactivity timer is armed and the  *)
(*                     connect() callback still listens for 'timeout'      *)
(*   pending           the call whose resolve/reject are stored in         *)
(*                     pendingResolve/pendingReject (0: both null)         *)
(*   call              each sendCommand promise: "unused", "pending",      *)
(*                     "resolved", or the message it was rejected with     *)
(*   callTimer         the call's 5 s setTimeout has not fired yet         *)
(*   wire              requests the device has received and not answered   *)
(*   writeQueue        requests written while the socket was connecting    *)
(*   failedWrites      calls whose write failed and whose write callback   *)
(*                     has not run yet                                     *)
(*   connectPromise    the promise of the latest connect(): "none",        *)
(*                     "pending", "true" (connected), "false"              *)
(*   attempt           what became of the latest connection attempt        *)
(*   lastNotified      connected value of the last status notification     *)
(*   pendingAtWrite    the pending call at the handler's write of the      *)
(*                     connected flag, until the handler notifies          *)
(*   rejectedBeforeNotify  the last notification came after the handler    *)
(*                     had cleared the pending call it found at the write  *)
(*   observer          0 after an unexpected loss, 1 once the observer has *)
(*                     seen connected=false, 2 once it then saw true       *)
(*   mode              "idle" never connected, "up" established, "lost"    *)
(*                     established connection lost by socket close/error   *)
(*                     and not re-established, "dropped" torn down by the  *)
(*                     supervisor's own socket timeout, "manual" after an  *)
(*                     explicit connect(), "disconnected" after an         *)
(*                     explicit disconnect()                               *)
(*   fails, losses     what the environment may still do (bounds)          *)
(***************************************************************************)

CasparNew ==
  [ config |-> FALSE, connected |-> FALSE, reconnectInterval |-> FALSE,
    socket |-> "null", socketTimeout |-> FALSE, pending |-> 0,
    call |-> [c \in Calls |-> "unused"],
    callTimer |-> [c \in Calls |-> FALSE],
    wire |-> <<>>, writeQueue |-> <<>>, failedWrites |-> {},
    connectPromise |-> "none", attempt |-> "none",
    lastNotified |-> "none", observer |-> 2,
    pendingAtWrite |-> 0, rejectedBeforeNotify |-> FALSE,
    mode |-> "idle", fails |-> MaxFails, losses |-> MaxLosses ]

\* A promise settles once: settling a settled promise changes nothing.
SettleCall(s, c, outcome) ==
  IF s.call[c] = "pending" THEN [s EXCEPT !.call[c] = outcome] ELSE s

SettleConnect(s, outcome) ==
  IF s.connectPromise = "pending" THEN [s EXCEPT !.connectPromise = outcome] ELSE s

\* notifyStatusChange() that invokes no observer.
Caspar_notifyStatusChange_never(s) == s

Caspar_notifyStatusChange(s) ==
  [s EXCEPT !.lastNotified = IF s.connected THEN "true" ELSE "false",
            !.rejectedBeforeNotify = (s.pending # s.pendingAtWrite),
            !.pendingAtWrite = 0,
            !.observer = IF ~s.connected /\ s.observer = 0 THEN 1
                         ELSE IF s.connected /\ s.observer = 1 THEN 2
                         ELSE s.observer]

\* `this._connected = v` in a handler that goes on to notify.
Caspar_setConnected(s, v) == [s EXCEPT !.connected = v, !.pendingAtWrite = s.pending]

Caspar_stopReconnect(s) == [s EXCEPT !.reconnectInterval = FALSE]

Caspar_startReconnect(s) ==
  IF s.reconnectInterval \/ ~s.config THEN s
  ELSE [s EXCEPT !.reconnectInterval = TRUE]

Caspar_rejectPending(s, reason) ==
  IF s.pending # 0
  THEN [SettleCall(s, s.pending, reason) EXCEPT !.pending = 0]
  ELSE s

\* The callback of socket.write when the write failed.
Caspar_onWriteError(s, c) ==
  SettleCall([s EXCEPT !.pending = 0], c, "Failed to send command")

SeqRange(q) == {q[i] : i \in 1 .. Len(q)}

\* socket.destroy(): the socket's timer is cleared, what is in flight is lost,
\* and the writes it never sent have failed: their callbacks run later, in a
\* turn of their own (CasparWriteError).
Caspar_destroySocket(s) ==
  [s EXCEPT !.socket = "destroyed", !.socketTimeout = FALSE,
            !.wire = <<>>, !.writeQueue = <<>>,
            !.failedWrites = @ \cup SeqRange(s.writeQueue)]

Caspar_onClose(s) ==
  IF s.connected
  THEN Caspar_startReconnect(Caspar_notifyStatusChange(
         Caspar_rejectPending(Caspar_setConnected(s, FALSE), "Connection closed")))
  ELSE s

Caspar_onError(s) ==
  Caspar_notifyStatusChange(
    Caspar_rejectPending(Caspar_setConnected(s, FALSE), "socket error"))

Caspar_onConnect(s) ==
  SettleConnect(Caspar_notifyStatusChange(Caspar_setConnected(s, TRUE)), "true")

Caspar_onTimeout(s) ==
  SettleConnect(
    Caspar_notifyStatusChange(Caspar_setConnected(Caspar_destroySocket(s), FALSE)),
    "false")

Caspar_connect(s) ==
  LET s1 == Caspar_stopReconnect([s EXCEPT !.config = TRUE])
      s2 == IF s1.socket # "null" THEN Caspar_destroySocket(s1) ELSE s1
  IN  [s2 EXCEPT !.socket = "connecting", !.socketTimeout = TRUE,
                 !.connectPromise = "pending", !.attempt = "inflight"]

Caspar_processBuffer(s) ==
  IF s.pending # 0
  THEN [SettleCall(s, s.pending, "resolved") EXCEPT !.pending = 0]
  ELSE s

Caspar_write(s, c) ==
  CASE s.socket = "open" -> [s EXCEPT !.wire = Append(@, c)]
    [] s.socket = "connecting" -> [s EXCEPT !.writeQueue = Append(@, c)]
    [] OTHER -> [s EXCEPT !.failedWrites = @ \cup {c}]

Caspar_sendCommand(s, c) ==
  IF ~s.connected \/ s.socket = "null"
  THEN [s EXCEPT !.call[c] = "CasparCG not connected"]
  ELSE Caspar_write([s EXCEPT !.pending = c, !.call[c] = "pending",
                              !.callTimer[c] = TRUE], c)

\* The 5 s timer rejecting the pending call and leaving it registered.
Caspar_commandTimeout_keep(s, c) ==
  IF s.pending # 0
  THEN SettleCall([s EXCEPT !.callTimer[c] = FALSE], s.pending, "Command timeout")
  ELSE [s EXCEPT !.callTimer[c] = FALSE]

Caspar_commandTimeout(s, c) ==
  Caspar_rejectPending([s EXCEPT !.callTimer[c] = FALSE], "Command timeout")

\* disconnect() without the rejection of the pending call.
Caspar_disconnect_noReject(s) ==
  LET s1 == Caspar_stopReconnect(s)
      s2 == IF s1.socket # "null"
            THEN [Caspar_destroySocket(s1) EXCEPT !.socket = "null"]
            ELSE s1
  IN  Caspar_notifyStatusChange(Caspar_setConnected(s2, FALSE))

Caspar_disconnect(s) ==
  LET s1 == Caspar_stopReconnect(s)
      s2 == IF s1.socket # "null"
            THEN [Caspar_destroySocket(s1) EXCEPT !.socket = "null"]
            ELSE s1
  IN  Caspar_notifyStatusChange(
        Caspar_rejectPending(Caspar_setConnected(s2, FALSE), "Disconnected"))

Caspar_isConnected(s) == s.connected

\* handleCasparCGCommand, a media or CG operation: the adapter is called only
\* when it reports connected.
Caspar_routeOperation(s, c) ==
  IF ~Caspar_isConnected(s)
  THEN [s EXCEPT !.call[c] = "CasparCG not connected"]
  ELSE Caspar_sendCommand(s, c)

Caspar_reconnectTick(s) ==
  IF s.connected THEN Caspar_stopReconnect(s) ELSE Caspar_connect(s)

----------------------------------------------------------------------------
\* Actions of the playout supervisor.

NextCall == IF \E c \in Calls : caspar.call[c] = "unused"
            THEN CHOOSE c \in Calls :
                   caspar.call[c] = "unused" /\
                   \A d \in Calls : d < c => caspar.call[d] # "unused"
            ELSE 0

CasparConnectCall ==
  /\ caspar' = Caspar_connect([caspar EXCEPT !.mode = "manual"])
  /\ UNCHANGED <<obs, relay, codec>>

CasparDisconnectCall ==
  /\ caspar' = Caspar_disconnect([caspar EXCEPT !.mode = "disconnected"])
  /\ UNCHANGED <<obs, relay, codec>>

CasparOperation ==
  /\ NextCall # 0
  /\ caspar' = Caspar_routeOperation(caspar, NextCall)
  /\ UNCHANGED <<obs, relay, codec>>

CasparSocketConnected ==
  /\ caspar.socket = "connecting"
  /\ caspar' = [Caspar_onConnect(caspar) EXCEPT
                  !.socket = "open", !.attempt = "established", !.mode = "up",
                  !.wire = caspar.writeQueue, !.writeQueue = <<>>]
  /\ UNCHANGED <<obs, relay, codec>>

CasparSocketError ==
  /\ \/ caspar.socket = "connecting" /\ caspar.fails > 0
     \/ caspar.socket = "open" /\ caspar.losses > 0
  /\ LET s0 == IF caspar.socket = "connecting"
               THEN [caspar EXCEPT !.fails = @ - 1, !.attempt = "errored"]
               ELSE [caspar EXCEPT !.losses = @ - 1, !.mode = "lost", !.observer = 0]
     IN  caspar' = Caspar_onClose(Caspar_onError(Caspar_destroySocket(s0)))
  /\ UNCHANGED <<obs, relay, codec>>

CasparSocketClosed ==
  /\ caspar.socket = "open" /\ caspar.losses > 0
  /\ caspar' = Caspar_onClose(Caspar_destroySocket(
                 [caspar EXCEPT !.losses = @ - 1, !.mode = "lost", !.observer = 0]))
  /\ UNCHANGED <<obs, relay, codec>>

CasparSocketTimeout ==
  /\ caspar.socketTimeout
  /\ \/ caspar.socket = "connecting" /\ caspar.fails > 0
     \/ caspar.socket = "open" /\ caspar.losses > 0
  /\ LET s0 == IF caspar.socket = "connecting"
               THEN [caspar EXCEPT !.fails = @ - 1, !.attempt = "timedout"]
               ELSE [caspar EXCEPT !.losses = @ - 1, !.mode = "dropped"]
     IN  caspar' = Caspar_onClose(Caspar_onTimeout(s0))
  /\ UNCHANGED <<obs, relay, codec>>

CasparData ==
  /\ caspar.socket = "open" /\ caspar.wire # <<>>
  /\ caspar' = Caspar_processBuffer([caspar EXCEPT !.wire = Tail(@)])
  /\ UNCHANGED <<obs, relay, codec>>

CasparWriteError ==
  /\ \E c \in caspar.failedWrites :
       caspar' = Caspar_onWriteError([caspar EXCEPT !.failedWrites = @ \ {c}], c)
  /\ UNCHANGED <<obs, relay, codec>>

CasparCommandTimeout ==
  /\ \E c \in Calls :
       /\ caspar.callTimer[c]
       /\ caspar' = Caspar_commandTimeout(caspar, c)
  /\ UNCHANGED <<obs, relay, codec>>

CasparReconnectTick ==
  /\ caspar.reconnectInterval
  /\ caspar' = Caspar_reconnectTick(caspar)
  /\ UNCHANGED <<obs, relay, codec>>

CasparNext ==
  \/ CasparConnectCall
  \/ CasparDisconnectCall
  \/ CasparOperation
  \/ CasparSocketConnected
  \/ CasparSocketError
  \/ CasparSocketClosed
  \/ CasparSocketTimeout
  \/ CasparData
  \/ CasparWriteError
  \/ CasparCommandTimeout
  \/ CasparReconnectTick

CasparInit == caspar = CasparNew /\ obs = 0 /\ relay = 0 /\ codec = 0

CasparSpec == CasparInit /\ [][CasparNext]_vars

CasparFairSpec ==
  /\ CasparInit /\ [][CasparNext]_vars
  /\ WF_vars(CasparSocketConnected)
  /\ WF_vars(CasparData)
  /\ WF_vars(CasparCommandTimeout)
  /\ WF_vars(CasparWriteError)
  /\ WF_vars(CasparReconnectTick)


(***************************************************************************)
(* The framing of the playout protocol, byte by byte: the 'data' handler   *)
(* and processBuffer of CasparCGService on one status line that arrives    *)
(* in pieces.  (The supervisor above takes a whole line per data event.)   *)
(*                                                                         *)
(* Fields of the record:                                                   *)
(*   sent            the status line the server sends: its code, as a      *)
(*                   number, and its message                               *)
(*   rest            the bytes of the line and its terminator not yet      *)
(*                   delivered                                             *)
(*   responseBuffer  this.responseBuffer                                   *)
(*   pendingResolve  whether a call is pending                             *)
(*   frames          the {code, message} values the pending call was       *)
(*                   resolved with, in order                               *)
(***************************************************************************)

Digits == <<"0", "1", "2", "3", "4", "5", "6", "7", "8", "9">>

DigitChars == {Digits[i] : i \in 1 .. 10}

DigitValue(ch) == (CHOOSE i \in 1 .. 10 : Digits[i] = ch) - 1

\* The digits and the message characters the status lines of the model are
\* made of.
CodeDigits == {"0", "1", "2", "3", "9"}

MessageChars == {"a", " "}

RECURSIVE SeqsUpTo(_, _)
SeqsUpTo(S, n) ==
  IF n = 0 THEN {<<>>}
  ELSE LET shorter == SeqsUpTo(S, n - 1)
       IN  shorter \cup {Append(q, x) : q \in shorter, x \in S}

\* "{code} {message}\r\n" as the server writes it.
StatusLine(d, message) == <<d[1], d[2], d[3], " ">> \o message

Terminator == <<"CR", "LF">>

\* String.prototype.indexOf("\r\n"), 1-based, 0 when absent.
IndexOfTerminator(b) ==
  IF \E i \in 1 .. Len(b) - 1 : b[i] = "CR" /\ b[i + 1] = "LF"
  THEN CHOOSE i \in 1 .. Len(b) - 1 :
         /\ b[i] = "CR" /\ b[i + 1] = "LF"
         /\ \A j \in 1 .. i - 1 : ~(b[j] = "CR" /\ b[j + 1] = "LF")
  ELSE 0

\* String.prototype.split("\r\n").
RECURSIVE Split(_)
Split(b) ==
  LET i == IndexOfTerminator(b)
  IN  IF i = 0 THEN <<b>>
      ELSE <<SubSeq(b, 1, i - 1)>> \o Split(SubSeq(b, i + 2, Len(b)))

\* The value parseInt() gives when it finds no digit.  It is kept apart from
\* every number parseInt() can read (no sign is read, so none is negative);
\* every comparison with it is false.
NaN == 0 - 1

\* parseInt(str, 10): leading blanks are skipped, then the longest run of
\* digits is read; NaN when there is none.
RECURSIVE ParseDigits(_, _)
ParseDigits(q, acc) ==
  IF q = <<>> \/ Head(q) \notin DigitChars THEN acc
  ELSE ParseDigits(Tail(q), 10 * acc + DigitValue(Head(q)))

RECURSIVE ParseInt(_)
ParseInt(q) ==
  IF q = <<>> THEN NaN
  ELSE IF Head(q) = " " THEN ParseInt(Tail(q))
  ELSE IF Head(q) \notin DigitChars THEN NaN
  ELSE ParseDigits(q, 0)

\* String.prototype.substring(from, to), 0-based, to excluded.
Substring(q, from, to) ==
  SubSeq(q, from + 1, IF to < Len(q) THEN to ELSE Len(q))

Codec_processBuffer(c) ==
  LET lines == Split(c.responseBuffer)
  IN  IF Len(lines) >= 2 /\ lines[Len(lines)] = <<>>
      THEN LET responseLine == lines[1]
               c1 == [c EXCEPT !.responseBuffer = <<>>,
                               !.extracted = Append(@, responseLine)]
           IN  IF c1.pendingResolve
               THEN [c1 EXCEPT
                       !.frames = Append(@,
                          [code |-> ParseInt(Substring(responseLine, 0, 3)),
                           message |-> Substring(responseLine, 4, Len(responseLine))]),
                       !.pendingResolve = FALSE]
               ELSE c1
      ELSE c

\* The 'data' handler that keeps only the piece it was given.
Codec_onData_noAccumulate(c, data) ==
  Codec_processBuffer([c EXCEPT !.responseBuffer = data])

\* The 'data' handler.
Codec_onData(c, data) ==
  Codec_processBuffer([c EXCEPT !.responseBuffer = @ \o data])

\* The socket delivers the next bytes, any number of them.
CodecData ==
  /\ \E k \in 1 .. Len(codec.rest) :
       codec' = Codec_onData([codec EXCEPT !.rest = SubSeq(@, k + 1, Len(@)),
                                           !.delivered = @ \o SubSeq(codec.rest, 1, k)],
                             SubSeq(codec.rest, 1, k))
  /\ UNCHANGED <<caspar, obs, relay>>

\* The status test of the caspar_ operation cases of the router that accepts
\* every code from 200 upwards.
CasparCodeOk_noUpperBound(code) == code # NaN /\ code >= 200

\* `result.code >= 200 && result.code < 300` of the caspar_ operation cases
\* (a comparison with NaN is false).
CasparCodeOk(code) == code # NaN /\ code >= 200 /\ code < 300

\* The object a caspar_ operation case hands to sendResponse() once the
\* adapter call has resolved with `result`.
Caspar_operationResult(result) == [success |-> CasparCodeOk(result.code), error |-> "none"]

\* The adapter call resolves with the decoded frame and the router case goes
\* on after its await.
CodecRespond ==
  /\ codec.frames # <<>> /\ codec.responses = <<>>
  /\ codec' = [codec EXCEPT !.responses = <<Caspar_operationResult(codec.frames[1])>>]
  /\ UNCHANGED <<caspar, obs, relay>>

CodecNext == CodecData \/ CodecRespond

\* A call is pending, the buffer is empty (connect() and every complete line
\* empty it) and the server answers with one status line.
CodecInit ==
  /\ \E d \in [1 .. 3 -> CodeDigits], message \in SeqsUpTo(MessageChars, MaxMsgLen) :
       codec = [ sent |-> [code |-> 100 * DigitValue(d[1]) + 10 * DigitValue(d[2])
                                      + DigitValue(d[3]),
                           message |-> message],
                 rest |-> StatusLine(d, message) \o Terminator,
                 responseBuffer |-> <<>>, pendingResolve |-> TRUE, frames |-> <<>>,
                 extracted |-> <<>>, delivered |-> <<>>, calls |-> 1,
                 responses |-> <<>> ]
  /\ caspar = 0 /\ obs = 0 /\ relay = 0

CodecSpec == CodecInit /\ [][CodecNext]_vars

(***************************************************************************)
(* The decoder on a stream of two status lines.  The server answers two    *)
(* commands (the first answer is late: its call has timed out and the      *)
(* caller has issued the next one), and the socket delivers the bytes in   *)
(* pieces that need not end where a line ends.                             *)
(*   extracted   the lines processBuffer() took out of the buffer          *)
(*   delivered   the bytes the 'data' handler has been given so far        *)
(*   calls       the calls issued so far                                   *)
(***************************************************************************)

\* The status codes of the lines of the stream.
StreamCodes == {<<"2", "0", "2">>, <<"5", "0", "0">>}

\* sendCommand() on a connected socket: the resolver is registered and the
\* response buffer is emptied.
Codec_sendCommand(c) ==
  [c EXCEPT !.pendingResolve = TRUE, !.responseBuffer = <<>>, !.calls = @ + 1]

\* The 5 s timer of a call finds the call pending and rejects it.
Codec_commandTimeout(c) == [c EXCEPT !.pendingResolve = FALSE]

StreamSendCommand ==
  /\ codec.calls < MaxStreamCalls
  /\ codec' = Codec_sendCommand(codec)
  /\ UNCHANGED <<caspar, obs, relay>>

StreamCommandTimeout ==
  /\ codec.pendingResolve
  /\ codec' = Codec_commandTimeout(codec)
  /\ UNCHANGED <<caspar, obs, relay>>

StreamNext == CodecData \/ StreamSendCommand \/ StreamCommandTimeout

StreamInit ==
  /\ \E d1 \in StreamCodes, d2 \in StreamCodes :
       codec = [ sent |-> [code |-> 0, message |-> <<>>],
                 rest |-> StatusLine(d1, <<"a">>) \o Terminator
                          \o StatusLine(d2, <<"a">>) \o Terminator,
                 responseBuffer |-> <<>>, pendingResolve |-> TRUE, frames |-> <<>>,
                 extracted |-> <<>>, delivered |-> <<>>, calls |-> 1,
                 responses |-> <<>> ]
  /\ caspar = 0 /\ obs = 0 /\ relay = 0

StreamSpec == StreamInit /\ [][StreamNext]_vars


(***************************************************************************)
(* OBSService (src/src/services/CasparCGService.ts, lines 322-531)         *)
(*                                                                         *)
(* Fields of the record:                                                   *)
(*   config, connected, reconnectInterval, lastNotified   as for CasparCG  *)
(*   socket         the obs-websocket-js client's socket: "none",          *)
(*                  "connecting", "open", "closing" (close requested by    *)
(*                  disconnect(), ConnectionClosed not yet emitted)        *)
(*   attempt        where the connect() in flight is: "none", "handshake"  *)
(*                  (awaiting obs.connect), "getVersion" (awaiting         *)
(*                  obs.call('GetVersion'))                                *)
(*   connectPromise the promise of the latest connect()                    *)
(*   disconnected   disconnect() has completed and connect() has not been  *)
(*                  called explicitly since                                *)
(*   op             each routed operation (obs.call): "unused",            *)
(*                  "inflight", "done", or the error it failed with        *)
(***************************************************************************)

ObsOps == 1 .. MaxObsOps

ObsNew ==
  [ config |-> FALSE, connected |-> FALSE, reconnectInterval |-> FALSE,
    socket |-> "none", attempt |-> "none", connectPromise |-> "none",
    disconnected |-> FALSE, lastNotified |-> "none",
    op |-> [o \in ObsOps |-> "unused"] ]

OBS_notifyStatusChange(s) ==
  [s EXCEPT !.lastNotified = IF s.connected THEN "true" ELSE "false"]

OBS_stopReconnect(s) == [s EXCEPT !.reconnectInterval = FALSE]

OBS_startReconnect(s) ==
  IF s.reconnectInterval \/ ~s.config THEN s
  ELSE [s EXCEPT !.reconnectInterval = TRUE]

\* setupEventListeners: the 'ConnectionClosed' listener.
OBS_onConnectionClosed(s) ==
  OBS_startReconnect(OBS_notifyStatusChange([s EXCEPT !.connected = FALSE]))

\* setupEventListeners: the 'ConnectionError' listener.
OBS_onConnectionError(s) ==
  OBS_notifyStatusChange([s EXCEPT !.connected = FALSE])

\* connect() up to its first await.
OBS_connect(s) ==
  [OBS_stopReconnect([s EXCEPT !.config = TRUE]) EXCEPT
     !.socket = "connecting", !.attempt = "handshake", !.connectPromise = "pending"]

\* connect() after GetVersion has answered.
OBS_connectSucceeded(s) ==
  [OBS_notifyStatusChange([s EXCEPT !.connected = TRUE]) EXCEPT
     !.attempt = "none", !.connectPromise = "true"]

\* connect(), the catch block.
OBS_connectFailed(s) ==
  [OBS_notifyStatusChange([s EXCEPT !.connected = FALSE]) EXCEPT
     !.attempt = "none", !.connectPromise = "false"]

\* Operations in flight fail when the socket goes away.
OBS_failOps(s) ==
  [s EXCEPT !.op = [o \in ObsOps |-> IF @[o] = "inflight" THEN "socket closed" ELSE @[o]]]

\* disconnect() up to its await: with _connected it asks the client to close
\* and waits; otherwise it runs to its end.
OBS_disconnect(s) ==
  LET s1 == OBS_stopReconnect(s)
  IN  IF s1.connected
      THEN [s1 EXCEPT !.socket = "closing"]
      ELSE [OBS_notifyStatusChange([s1 EXCEPT !.connected = FALSE]) EXCEPT
              !.disconnected = TRUE]

\* disconnect() after its await.
OBS_disconnectDone(s) ==
  [OBS_notifyStatusChange([s EXCEPT !.connected = FALSE]) EXCEPT !.disconnected = TRUE]

OBS_reconnectTick(s) ==
  IF s.connected THEN OBS_stopReconnect(s) ELSE OBS_connect(s)

\* A device operation (setScene, startStreaming, ...): it throws unless
\* connected, else it awaits obs.call.
OBS_operation(s, o) ==
  IF ~s.connected THEN [s EXCEPT !.op[o] = "OBS not connected"]
  ELSE [s EXCEPT !.op[o] = "inflight"]

----------------------------------------------------------------------------
\* Actions of the OBS supervisor.

NextObsOp == IF \E o \in ObsOps : obs.op[o] = "unused"
             THEN CHOOSE o \in ObsOps :
                    obs.op[o] = "unused" /\
                    \A d \in ObsOps : d < o => obs.op[d] # "unused"
             ELSE 0

\* An explicit connect().  The model calls it only while the client holds no
\* socket and no connect() is in flight.
ObsConnectCall ==
  /\ obs.socket = "none" /\ obs.attempt = "none"
  /\ obs' = OBS_connect([obs EXCEPT !.disconnected = FALSE])
  /\ UNCHANGED <<caspar, relay, codec>>

ObsDisconnectCall ==
  /\ obs.socket # "closing"
  /\ obs' = OBS_disconnect(obs)
  /\ UNCHANGED <<caspar, relay, codec>>

\* The socket opened and the client identified itself: obs.connect resolves.
ObsHandshakeDone ==
  /\ obs.attempt = "handshake"
  /\ obs' = [obs EXCEPT !.socket = "open", !.attempt = "getVersion"]
  /\ UNCHANGED <<caspar, relay, codec>>

\* The connection attempt failed: the client emits ConnectionClosed for the
\* socket it gives up and obs.connect rejects.
ObsHandshakeFailed ==
  /\ obs.attempt = "handshake"
  /\ obs' = OBS_connectFailed(OBS_onConnectionClosed([obs EXCEPT !.socket = "none"]))
  /\ UNCHANGED <<caspar, relay, codec>>

ObsVersionAnswered ==
  /\ obs.attempt = "getVersion" /\ obs.socket = "open"
  /\ obs' = OBS_connectSucceeded(obs)
  /\ UNCHANGED <<caspar, relay, codec>>

\* The open socket closes (by the peer, or as disconnect() asked): the client
\* emits ConnectionClosed; what awaited the socket then goes on.
ObsConnectionClosed ==
  /\ obs.socket \in {"open", "closing"}
  /\ LET s1 == OBS_failOps(OBS_onConnectionClosed([obs EXCEPT !.socket = "none"]))
         s2 == IF obs.attempt = "getVersion" THEN OBS_connectFailed(s1) ELSE s1
     IN  obs' = IF obs.socket = "closing" THEN OBS_disconnectDone(s2) ELSE s2
  /\ UNCHANGED <<caspar, relay, codec>>

\* The open socket fails: ConnectionError, then ConnectionClosed.
ObsConnectionError ==
  /\ obs.socket = "open"
  /\ LET s1 == OBS_failOps(OBS_onConnectionClosed(
                 OBS_onConnectionError([obs EXCEPT !.socket = "none"])))
     IN  obs' = IF obs.attempt = "getVersion" THEN OBS_connectFailed(s1) ELSE s1
  /\ UNCHANGED <<caspar, relay, codec>>

ObsReconnectTick ==
  /\ obs.reconnectInterval
  /\ obs' = OBS_reconnectTick(obs)
  /\ UNCHANGED <<caspar, relay, codec>>

ObsOperation ==
  /\ NextObsOp # 0
  /\ obs' = OBS_operation(obs, NextObsOp)
  /\ UNCHANGED <<caspar, relay, codec>>

ObsOperationAnswered ==
  /\ obs.socket = "open"
  /\ \E o \in ObsOps :
       /\ obs.op[o] = "inflight"
       /\ obs' = [obs EXCEPT !.op[o] = "done"]
  /\ UNCHANGED <<caspar, relay, codec>>

ObsNext ==
  \/ ObsConnectCall
  \/ ObsDisconnectCall
  \/ ObsHandshakeDone
  \/ ObsHandshakeFailed
  \/ ObsVersionAnswered
  \/ ObsConnectionClosed
  \/ ObsConnectionError
  \/ ObsReconnectTick
  \/ ObsOperation
  \/ ObsOperationAnswered

ObsInit == obs = ObsNew /\ caspar = 0 /\ relay = 0 /\ codec = 0

ObsSpec == ObsInit /\ [][ObsNext]_vars


(***************************************************************************)
(* SupabaseService (src/src/types/config.ts, lines 276-1021) and the       *)
(* command router of src/src/main/main.ts.                                 *)
(*                                                                         *)
(* Fields of the record:                                                   *)
(*   middlewareId      the identity the last successful authenticate       *)
(*                     returned, 0 for null                                *)
(*   channel           the identity the subscribed channel is named after  *)
(*                     ("middleware:<id>"), 0 for null                     *)
(*   heartbeatInterval, retryInterval, onCommandCallback                   *)
(*                     whether the field is non-null                       *)
(*   savedApiKey       the key the last connect() was called with, "none"  *)
(*                     for null                                            *)
(*   keyBefore         while a connect() awaits its authenticate RPC, the  *)
(*                     value savedApiKey had when connect() was called     *)
(*   suspended         this.suspended                                      *)
(*   suspendReason     this.suspendReason, "none" for null                 *)
(*   onSuspendInfo     what the suspend observer was called with last:     *)
(*                     "none", "resumed", or the reason of the suspension  *)
(*   signalIgnored     the latest call of handleSuspend or handleResume    *)
(*                     returned at its guard                               *)
(*   connecting        a connect() awaits its authenticate RPC             *)
(*   connectResult     what the last connect() that returned reported:     *)
(*                     "none", "error", "active", "suspended"              *)
(*   heartbeatInFlight, retryInFlight, offlineInFlight                     *)
(*                     an update_middleware_status RPC of sendHeartbeat,   *)
(*                     an authenticate of the retry callback, the offline  *)
(*                     RPC of disconnect() awaits its answer               *)
(*   disconnected      disconnect() was called and connect() has not been  *)
(*                     called explicitly since                             *)
(*   platformActive    the platform has settled on active: from then on    *)
(*                     every RPC is answered, and answered active          *)
(*   cmds              the commands received so far, in order; for each:   *)
(*     action            <<prefix, name>>, the action string split after   *)
(*                       its namespace prefix                              *)
(*     request_id, response_channel   whether the envelope carries them    *)
(*     suspendedAtReceipt  this.suspended when the handler started         *)
(*     forwarded         onCommandCallback was called with the command     *)
(*     isConnected       what the adapter's isConnected() answered:        *)
(*                       "unasked", "true", "false"                        *)
(*     adapter           the adapter call made for it: "none", "inflight", *)
(*                       or how it ended                                   *)
(*     responses         the response envelopes issued for it; dest is the *)
(*                       channel they go to and state is "subscribing"     *)
(*                       while the response channel is being joined,       *)
(*                       "sent" once published, "dropped" when the join    *)
(*                       ended in another status than SUBSCRIBED           *)
(*     pong              a pong event was sent on the main channel         *)
(*     params            which of sceneItemId and sourceName it supplies   *)
(*     lookup            the getSceneItemId call made for it: "none",      *)
(*                       "inflight", "found", "failed"                     *)
(*     calls             the adapter methods called for a source command   *)
(***************************************************************************)

Prefixes == {"obs_", "vmix_", "caspar_", "meld_"}

\* The cases of each handler's switch: the connect action and the device
\* operations (one operation stands for the cases of the same shape).
ConnectName == "connect"
OperationName(prefix) ==
  CASE prefix = "obs_" -> "switch_scene"
    [] prefix = "vmix_" -> "cut"
    [] prefix = "caspar_" -> "play"
    [] prefix = "meld_" -> "show_scene"

DeviceName(prefix) ==
  CASE prefix = "obs_" -> "OBS WebSocket"
    [] prefix = "vmix_" -> "vMix"
    [] prefix = "caspar_" -> "CasparCG"
    [] prefix = "meld_" -> "MeldStudio"

\* The actions the relay sends in the model.
CommandActions ==
  {<<"", "middleware_disable">>, <<"", "middleware_enable">>, <<"", "ping">>,
   <<"atem_", "cut">>}
  \cup {<<p, ConnectName>> : p \in Prefixes}
  \cup {<<p, OperationName(p)>> : p \in Prefixes}
  \cup {<<p, "frobnicate">> : p \in Prefixes}

\* The params of a command that the model reads: whether sceneItemId (or its
\* synonym sourceId) and sourceName are supplied.
NoParams == [sceneItemId |-> FALSE, sourceName |-> FALSE]

Commands ==
  [action : CommandActions, request_id : BOOLEAN, response_channel : BOOLEAN,
   params : {NoParams}]

\* The obs_ cases that address a scene item by the name of its source.
SourceActions == {"show_source", "hide_source", "toggle_source"}

SourceCommands ==
  [action : {<<"obs_", a>> : a \in SourceActions},
   request_id : BOOLEAN, response_channel : BOOLEAN,
   params : [sceneItemId : BOOLEAN, sourceName : BOOLEAN]]

\* The identities the platform hands out.
Ids == {1, 2}

\* The API keys connect() is called with; the router and the status pushes
\* are studied with the configured one.
ApiKeys == {"k1", "k2"}
ConfiguredKey == "k1"

\* The keys of the aggregated status payload.
DeviceKinds == {"obs", "vmix", "casparcg", "meldstudio"}

RelayNew ==
  [ middlewareId |-> 0, channel |-> 0, heartbeatInterval |-> FALSE,
    retryInterval |-> FALSE, onCommandCallback |-> FALSE, savedApiKey |-> "none",
    keyBefore |-> "none",
    suspended |-> FALSE, suspendReason |-> "none", onSuspendInfo |-> "none",
    signalIgnored |-> FALSE, connecting |-> FALSE, connectResult |-> "none",
    heartbeatInFlight |-> FALSE, retryInFlight |-> FALSE,
    offlineInFlight |-> FALSE, disconnected |-> FALSE,
    platformActive |-> FALSE, cmds |-> <<>>,
    devices |-> [d \in DeviceKinds |-> FALSE],
    view |-> [d \in DeviceKinds |-> FALSE],
    pushes |-> {}, changes |-> MaxChanges ]

Received(cmd, susp) ==
  [ action |-> cmd.action, request_id |-> cmd.request_id,
    response_channel |-> cmd.response_channel, suspendedAtReceipt |-> susp,
    forwarded |-> FALSE, isConnected |-> "unasked", adapter |-> "none",
    responses |-> <<>>, pong |-> FALSE,
    params |-> cmd.params, lookup |-> "none", calls |-> <<>> ]

Envelope(cmd, success, data, error) ==
  [ request_id |-> cmd.request_id, success |-> success, data |-> data,
    error |-> error, dest |-> "", state |-> "" ]

\* sendResponse and sendError: the payload is built; when the command names
\* a response channel, join it and publish from the join's status callback;
\* else publish on the main channel when there is one; else the payload is
\* dropped.
Supabase_sendResponse(s, i, env) ==
  IF s.cmds[i].response_channel
  THEN [s EXCEPT !.cmds[i].responses =
          Append(@, [env EXCEPT !.dest = "response_channel", !.state = "subscribing"])]
  ELSE IF s.channel = 0
  THEN [s EXCEPT !.cmds[i].responses =
          Append(@, [env EXCEPT !.dest = "main", !.state = "dropped"])]
  ELSE [s EXCEPT !.cmds[i].responses =
          Append(@, [env EXCEPT !.dest = "main", !.state = "sent"])]

\* The status callback of the response channel's subscribe().
Supabase_onResponseChannelStatus(s, i, j, status) ==
  [s EXCEPT !.cmds[i].responses[j].state =
     IF status = "SUBSCRIBED" THEN "sent" ELSE "dropped"]

Supabase_sendError(s, i, error) ==
  Supabase_sendResponse(s, i, Envelope(s.cmds[i], FALSE, "none", error))

\* sendPong() sending nothing.
Supabase_sendPong_silent(s, i) == s

Supabase_sendPong(s, i) ==
  IF s.channel = 0 THEN s ELSE [s EXCEPT !.cmds[i].pong = TRUE]

Supabase_startHeartbeat(s) == [s EXCEPT !.heartbeatInterval = TRUE]

\* stopHeartbeat() leaving the timer armed.
Supabase_stopHeartbeat_keep(s) == s

Supabase_stopHeartbeat(s) == [s EXCEPT !.heartbeatInterval = FALSE]

\* startRetry() arming no timer.
Supabase_startRetry_never(s) == s

Supabase_startRetry(s) == [s EXCEPT !.retryInterval = TRUE]

\* stopRetry() leaving the timer armed.
Supabase_stopRetry_keep(s) == s

Supabase_stopRetry(s) == [s EXCEPT !.retryInterval = FALSE]

\* A suspension is signalled with a reason: "disabled_by_platform", the
\* default of the RPC answers, or "by_command", the reason a command gives.

\* handleSuspend() without its guard.
Supabase_handleSuspend_again(s, reason) ==
  Supabase_startRetry(
    [Supabase_stopHeartbeat([s EXCEPT !.suspended = TRUE, !.suspendReason = reason])
       EXCEPT !.onSuspendInfo = reason, !.signalIgnored = FALSE])

Supabase_handleSuspend(s, reason) ==
  IF s.suspended THEN [s EXCEPT !.signalIgnored = TRUE]
  ELSE Supabase_startRetry(
         [Supabase_stopHeartbeat([s EXCEPT !.suspended = TRUE, !.suspendReason = reason])
            EXCEPT !.onSuspendInfo = reason, !.signalIgnored = FALSE])

\* connect() up to the await of its authenticate RPC.
Supabase_connect(s, apiKey) ==
  [s EXCEPT !.keyBefore = s.savedApiKey, !.savedApiKey = apiKey,
            !.connecting = TRUE]

\* handleResume() that does not restart the heartbeat on a live channel.
Supabase_handleResume_noHeartbeat(s) ==
  IF ~s.suspended THEN [s EXCEPT !.signalIgnored = TRUE]
  ELSE LET s1 == [Supabase_stopRetry([s EXCEPT !.suspended = FALSE,
                                               !.suspendReason = "none"])
                    EXCEPT !.onSuspendInfo = "resumed", !.signalIgnored = FALSE]
       IN  IF s1.channel # 0 /\ s1.savedApiKey # "none" THEN s1
           ELSE IF s1.savedApiKey # "none" THEN Supabase_connect(s1, s1.savedApiKey)
           ELSE s1

\* handleResume() that does not reconnect when the channel is gone.
Supabase_handleResume_noReconnect(s) ==
  IF ~s.suspended THEN [s EXCEPT !.signalIgnored = TRUE]
  ELSE LET s1 == [Supabase_stopRetry([s EXCEPT !.suspended = FALSE,
                                               !.suspendReason = "none"])
                    EXCEPT !.onSuspendInfo = "resumed", !.signalIgnored = FALSE]
       IN  IF s1.channel # 0 /\ s1.savedApiKey # "none" THEN Supabase_startHeartbeat(s1)
           ELSE s1

Supabase_handleResume(s) ==
  IF ~s.suspended THEN [s EXCEPT !.signalIgnored = TRUE]
  ELSE LET s1 == [Supabase_stopRetry([s EXCEPT !.suspended = FALSE,
                                               !.suspendReason = "none"])
                    EXCEPT !.onSuspendInfo = "resumed", !.signalIgnored = FALSE]
       IN  IF s1.channel # 0 /\ s1.savedApiKey # "none" THEN Supabase_startHeartbeat(s1)
           ELSE IF s1.savedApiKey # "none" THEN Supabase_connect(s1, s1.savedApiKey)
           ELSE s1

\* subscribeToCommands(onCommand), onCommand given: an existing channel is
\* kept whatever it is named after.
Supabase_subscribeToCommands(s) ==
  IF s.middlewareId = 0 THEN s
  ELSE IF s.channel # 0 THEN [s EXCEPT !.onCommandCallback = TRUE]
  ELSE [s EXCEPT !.channel = s.middlewareId, !.onCommandCallback = TRUE]

\* authenticate(), once the RPC has answered: "error", or "active" or
\* "inactive" with the identity id.
Supabase_authenticate(s, answer, id) ==
  CASE answer = "error" -> s
    [] answer = "inactive" ->
         Supabase_handleSuspend([s EXCEPT !.middlewareId = id], "disabled_by_platform")
    [] answer = "active" ->
         IF s.suspended THEN Supabase_handleResume([s EXCEPT !.middlewareId = id])
         ELSE [s EXCEPT !.middlewareId = id]

\* connect() after its authenticate RPC.
Supabase_connectAuthenticated(s, answer, id) ==
  LET s1 == Supabase_authenticate([s EXCEPT !.keyBefore = "none"], answer, id)
  IN  CASE answer = "error" -> [s1 EXCEPT !.connectResult = "error"]
        [] answer = "inactive" -> [s1 EXCEPT !.connectResult = "suspended"]
        [] answer = "active" ->
             [Supabase_startHeartbeat(Supabase_subscribeToCommands(s1)) EXCEPT
                !.connectResult = "active"]

\* sendHeartbeat(), once the RPC has answered.
Supabase_sendHeartbeat(s, answer) ==
  IF answer = "inactive" THEN Supabase_handleSuspend(s, "disabled_by_platform") ELSE s

\* The callback of the retry interval, with the answer of its authenticate.
Supabase_retry(s, answer, id) ==
  LET s1 == Supabase_authenticate(s, answer, id)
  IN  IF answer = "active" THEN Supabase_handleResume(s1) ELSE s1

Supabase_unsubscribe(s) == [s EXCEPT !.channel = 0]

\* disconnect() up to the await of its offline RPC.
Supabase_disconnectBegin(s) ==
  [Supabase_unsubscribe(Supabase_stopRetry(Supabase_stopHeartbeat(s))) EXCEPT
     !.suspended = FALSE, !.suspendReason = "none"]

\* disconnect() after it.
Supabase_disconnectEnd(s) == [s EXCEPT !.middlewareId = 0]

Supabase_disconnect(s) == Supabase_disconnectEnd(Supabase_disconnectBegin(s))

\* The handlers without the isConnected() test of their operations.
handleDeviceCommand_noCheck(s, i, connected) ==
  LET cmd == s.cmds[i]
      prefix == cmd.action[1]
      name == cmd.action[2]
  IN  CASE name = ConnectName -> [s EXCEPT !.cmds[i].adapter = "inflight"]
        [] name = OperationName(prefix) ->
             [s EXCEPT !.cmds[i].isConnected = IF connected THEN "true" ELSE "false",
                       !.cmds[i].adapter = "inflight"]
        [] OTHER -> Supabase_sendError(s, i, <<"Unknown command: ", cmd.action>>)

\* The mutating call of a source case: setSourceVisibility for show and
\* hide, toggleSource for toggle.
MutatingCall(name) ==
  IF name = "toggle_source" THEN "toggleSource" ELSE "setSourceVisibility"

handleOBSSourceMutate(s, i) ==
  [s EXCEPT !.cmds[i].adapter = "inflight",
            !.cmds[i].calls = Append(@, MutatingCall(s.cmds[i].action[2]))]

handleOBSSourceLookup(s, i) ==
  [s EXCEPT !.cmds[i].lookup = "inflight",
            !.cmds[i].calls = Append(@, "getSceneItemId")]

\* The cases obs_show_source, obs_hide_source and obs_toggle_source of
\* handleOBSCommand up to their first await: show and hide always look the
\* id up; toggle does when no id is supplied and a sourceName is.
handleOBSSourceCommand(s, i, connected) ==
  LET cmd == s.cmds[i]
  IN  IF ~connected
      THEN Supabase_sendError([s EXCEPT !.cmds[i].isConnected = "false"], i,
                              <<"OBS WebSocket", " not connected">>)
      ELSE LET s1 == [s EXCEPT !.cmds[i].isConnected = "true"]
           IN  IF cmd.action[2] \in {"show_source", "hide_source"}
               THEN handleOBSSourceLookup(s1, i)
               ELSE IF ~cmd.params.sceneItemId /\ cmd.params.sourceName
               THEN handleOBSSourceLookup(s1, i)
               ELSE handleOBSSourceMutate(s1, i)

\* handleOBSCommand, handleVMixCommand, handleCasparCGCommand and
\* handleMeldStudioCommand up to their first await: the four have the same
\* shape.  connected is what the adapter's isConnected() answers.
handleDeviceCommand(s, i, connected) ==
  LET cmd == s.cmds[i]
      prefix == cmd.action[1]
      name == cmd.action[2]
  IN  CASE name = ConnectName -> [s EXCEPT !.cmds[i].adapter = "inflight"]
        [] name = OperationName(prefix) ->
             IF ~connected
             THEN Supabase_sendError([s EXCEPT !.cmds[i].isConnected = "false"], i,
                                     <<DeviceName(prefix), " not connected">>)
             ELSE [s EXCEPT !.cmds[i].isConnected = "true",
                            !.cmds[i].adapter = "inflight"]
        [] prefix = "obs_" /\ name \in SourceActions ->
             handleOBSSourceCommand(s, i, connected)
        [] OTHER -> Supabase_sendError(s, i, <<"Unknown command: ", cmd.action>>)

\* handleCommand: routing by the action's prefix.
handleCommand(s, i, connected) ==
  IF s.cmds[i].action[1] \in Prefixes
  THEN handleDeviceCommand(s, i, connected)
  ELSE s

\* A catch block that logs the error and answers nothing.
handleDeviceCatch_silent(s, i, errorMsg) == s

\* The catch block of the four handlers: the error's message is sent as an
\* error response when the command has a request_id.
handleDeviceCatch(s, i, errorMsg) ==
  IF s.cmds[i].request_id THEN Supabase_sendError(s, i, errorMsg) ELSE s

\* The same handlers after the adapter call: how it ended and what is sent.
\* "connected"/"failed" end a connect; "ok", "nack" (a playout status code
\* outside 200-299) and "threw" end an operation.
handleDeviceReturn(s, i, outcome) ==
  LET cmd == s.cmds[i]
      s1 == [s EXCEPT !.cmds[i].adapter = outcome]
  IN  CASE outcome = "connected" ->
             Supabase_sendResponse(s1, i, Envelope(cmd, TRUE, "result", "none"))
        [] outcome = "failed" ->
             Supabase_sendResponse(s1, i, Envelope(cmd, FALSE, "none", "connect error"))
        [] outcome = "ok" ->
             Supabase_sendResponse(s1, i, Envelope(cmd, TRUE, "result", "none"))
        [] outcome = "nack" ->
             Supabase_sendResponse(s1, i, Envelope(cmd, FALSE, "none", "none"))
        [] outcome = "threw" ->
             handleDeviceCatch(s1, i, "adapter error")

\* How getSceneItemId can end: with the id, or by rejecting.
LookupOutcomes == {"found", "failed"}

\* A source case that goes on to the mutating call whatever the lookup gave.
handleOBSSourceLookupReturn_goOn(s, i, outcome) ==
  handleOBSSourceMutate([s EXCEPT !.cmds[i].lookup = outcome], i)

\* The source cases after `await obsService.getSceneItemId(...)`: with the id
\* the mutating call is made; a rejection leaves the switch for the catch
\* block.
handleOBSSourceLookupReturn(s, i, outcome) ==
  LET s1 == [s EXCEPT !.cmds[i].lookup = outcome]
  IN  IF outcome = "found" THEN handleOBSSourceMutate(s1, i)
      ELSE handleDeviceCatch([s1 EXCEPT !.cmds[i].adapter = "threw"], i, "adapter error")

\* The gate of the broadcast handler: a command received while suspended is
\* answered with an error, when it names a response channel, and dropped.
Supabase_gate(s, i) ==
  IF s.cmds[i].response_channel
  THEN Supabase_sendError(s, i, "Middleware is suspended")
  ELSE s

Supabase_forward(s, i, connected) ==
  IF s.onCommandCallback
  THEN handleCommand([s EXCEPT !.cmds[i].forwarded = TRUE], i, connected)
  ELSE s

\* subscribeToCommands: the handler of the 'command' broadcast.
Supabase_onCommand(s, cmd, connected) ==
  LET i == Len(s.cmds) + 1
      s0 == [s EXCEPT !.cmds = Append(@, Received(cmd, s.suspended))]
      ack == IF cmd.response_channel
             THEN Supabase_sendResponse(s0, i, Envelope(cmd, TRUE, "acknowledged", "none"))
             ELSE s0
  IN  CASE cmd.action = <<"", "middleware_disable">> ->
             Supabase_handleSuspend(ack, "by_command")
        [] cmd.action = <<"", "middleware_enable">> -> Supabase_handleResume(ack)
        [] OTHER ->
             IF s0.suspended THEN Supabase_gate(s0, i)
             ELSE IF cmd.action = <<"", "ping">>
             THEN LET s1 == Supabase_sendPong(s0, i)
                      s2 == IF cmd.response_channel
                            THEN Supabase_sendResponse(s1, i, Envelope(cmd, TRUE, "pong", "none"))
                            ELSE s1
                  IN  Supabase_forward(s2, i, connected)
             ELSE Supabase_forward(s0, i, connected)

AdapterOutcomes(cmd) ==
  IF cmd.action[2] = ConnectName THEN {"connected", "failed"}
  ELSE IF cmd.action[1] = "caspar_" THEN {"ok", "nack", "threw"}
  ELSE {"ok", "threw"}

----------------------------------------------------------------------------
\* Actions of the control channel and the router.

RelayConnect ==
  /\ ~relay.connecting
  /\ relay' = Supabase_connect(relay, ConfiguredKey)
  /\ UNCHANGED <<caspar, obs, codec>>

RelayAuthenticated ==
  /\ relay.connecting
  /\ \E answer \in {"error", "active", "inactive"}, id \in Ids :
       relay' = Supabase_connectAuthenticated([relay EXCEPT !.connecting = FALSE],
                                              answer, id)
  /\ UNCHANGED <<caspar, obs, codec>>

RelayHeartbeat ==
  /\ relay.heartbeatInterval /\ relay.middlewareId # 0
  /\ \E answer \in {"error", "active", "inactive"} :
       relay' = Supabase_sendHeartbeat(relay, answer)
  /\ UNCHANGED <<caspar, obs, codec>>

RelayRetry ==
  /\ relay.retryInterval /\ relay.savedApiKey # "none"
  /\ \E answer \in {"error", "active", "inactive"}, id \in Ids :
       relay' = Supabase_retry(relay, answer, id)
  /\ UNCHANGED <<caspar, obs, codec>>

RelayDisconnect ==
  /\ relay' = Supabase_disconnect(relay)
  /\ UNCHANGED <<caspar, obs, codec>>

RelayCommand ==
  /\ relay.channel # 0
  /\ Len(relay.cmds) < MaxCmds
  /\ \E cmd \in Commands, connected \in BOOLEAN :
       relay' = Supabase_onCommand(relay, cmd, connected)
  /\ UNCHANGED <<caspar, obs, codec>>

RelayAdapterReturns ==
  /\ \E i \in 1 .. Len(relay.cmds) :
       /\ relay.cmds[i].adapter = "inflight"
       /\ \E outcome \in AdapterOutcomes(relay.cmds[i]) :
            relay' = handleDeviceReturn(relay, i, outcome)
  /\ UNCHANGED <<caspar, obs, codec>>

RelayResponseChannelStatus ==
  /\ \E i \in 1 .. Len(relay.cmds) :
       \E j \in 1 .. Len(relay.cmds[i].responses) :
         /\ relay.cmds[i].responses[j].state = "subscribing"
         /\ \E status \in {"SUBSCRIBED", "TIMED_OUT"} :
              relay' = Supabase_onResponseChannelStatus(relay, i, j, status)
  /\ UNCHANGED <<caspar, obs, codec>>

RelayNext ==
  \/ RelayConnect
  \/ RelayAuthenticated
  \/ RelayHeartbeat
  \/ RelayRetry
  \/ RelayDisconnect
  \/ RelayCommand
  \/ RelayAdapterReturns
  \/ RelayResponseChannelStatus

RelayInit == relay = RelayNew /\ caspar = 0 /\ obs = 0 /\ codec = 0

RelaySpec == RelayInit /\ [][RelayNext]_vars

\* The router with any number of commands, one after the other: the record
\* of a command is dropped when the next one is received.
RouterCommand ==
  /\ relay.channel # 0
  /\ \E cmd \in Commands, connected \in BOOLEAN :
       relay' = Supabase_onCommand([relay EXCEPT !.cmds = <<>>], cmd, connected)
  /\ UNCHANGED <<caspar, obs, codec>>

\* The router with the source commands.
SourceCommand ==
  /\ relay.channel # 0
  /\ \E cmd \in SourceCommands, connected \in BOOLEAN :
       relay' = Supabase_onCommand([relay EXCEPT !.cmds = <<>>], cmd, connected)
  /\ UNCHANGED <<caspar, obs, codec>>

SourceLookupReturns ==
  /\ \E i \in 1 .. Len(relay.cmds) :
       /\ relay.cmds[i].lookup = "inflight"
       /\ \E outcome \in LookupOutcomes :
            relay' = handleOBSSourceLookupReturn(relay, i, outcome)
  /\ UNCHANGED <<caspar, obs, codec>>

SourceNext ==
  \/ RelayConnect
  \/ RelayAuthenticated
  \/ RelayDisconnect
  \/ SourceCommand
  \/ SourceLookupReturns
  \/ RelayAdapterReturns
  \/ RelayResponseChannelStatus

SourceSpec == RelayInit /\ [][SourceNext]_vars

RouterNext ==
  \/ RelayConnect
  \/ RelayAuthenticated
  \/ RelayHeartbeat
  \/ RelayRetry
  \/ RelayDisconnect
  \/ RouterCommand
  \/ RelayAdapterReturns
  \/ RelayResponseChannelStatus

RouterSpec == RelayInit /\ [][RouterNext]_vars

----------------------------------------------------------------------------
\* The aggregated status.  The fields of the session record used here:
\*   devices   the connected flag of each device adapter
\*   view      the connections the relay has stored last
\*   pushes    the update_middleware_status RPCs on their way to the relay
\*   changes   what the devices may still do (bound)

getConnections(s) == s.devices

Supabase_isConnected(s) == s.middlewareId # 0 /\ ~s.suspended

Supabase_updateConnectionStatus(s, connections) ==
  IF s.middlewareId = 0 THEN s ELSE [s EXCEPT !.pushes = @ \cup {connections}]

\* The status callbacks registered by initializeApp(), one per adapter.
onStatusChange(s) ==
  IF Supabase_isConnected(s)
  THEN Supabase_updateConnectionStatus(s, getConnections(s))
  ELSE s

\* An adapter's connected flag changes and the adapter notifies its observer.
StatusDeviceChanged ==
  /\ relay.changes > 0 /\ Cardinality(relay.pushes) < MaxPushes
  /\ \E d \in DeviceKinds :
       relay' = onStatusChange([relay EXCEPT !.devices[d] = ~@, !.changes = @ - 1])
  /\ UNCHANGED <<caspar, obs, codec>>

\* The relay executes a status RPC: the RPCs are separate HTTP requests and
\* arrive in any order.
StatusPushDelivered ==
  /\ \E connections \in relay.pushes :
       relay' = [relay EXCEPT !.view = connections, !.pushes = @ \ {connections}]
  /\ UNCHANGED <<caspar, obs, codec>>

\* A status RPC fails: updateConnectionStatus() logs the error.
StatusPushFailed ==
  /\ \E connections \in relay.pushes :
       relay' = [relay EXCEPT !.pushes = @ \ {connections}]
  /\ UNCHANGED <<caspar, obs, codec>>

\* The heartbeat: the same RPC with the connections of the moment, and the
\* answer's active flag.
StatusHeartbeat(answer) ==
  /\ relay.heartbeatInterval /\ relay.middlewareId # 0
  /\ relay' = Supabase_sendHeartbeat(
                [relay EXCEPT !.view = IF answer = "error" THEN @
                                       ELSE getConnections(relay)],
                answer)
  /\ UNCHANGED <<caspar, obs, codec>>

StatusNext ==
  \/ RelayConnect
  \/ RelayAuthenticated
  \/ RelayRetry
  \/ RelayDisconnect
  \/ StatusDeviceChanged
  \/ StatusPushDelivered
  \/ StatusPushFailed
  \/ \E answer \in {"error", "active", "inactive"} : StatusHeartbeat(answer)

StatusSpec == RelayInit /\ [][StatusNext]_vars

----------------------------------------------------------------------------
\* The control session with its RPCs in flight.  Every await of the service
\* is a step of its own: the RPC is sent in one step and answered in a later
\* one, and anything may happen in between.  The commands are handled and
\* not recorded.

\* What an RPC can be answered with.
Answers(s) ==
  IF s.platformActive THEN {"active"} ELSE {"error", "active", "inactive"}

IsActive(s) ==
  ~s.suspended /\ ~s.retryInterval /\ s.channel # 0 /\ s.heartbeatInterval

SessionConnect(apiKey) ==
  /\ ~relay.connecting
  /\ relay' = Supabase_connect([relay EXCEPT !.disconnected = FALSE], apiKey)
  /\ UNCHANGED <<caspar, obs, codec>>

SessionAuthenticated(answer, id) ==
  /\ relay.connecting
  /\ answer \in Answers(relay)
  /\ relay' = Supabase_connectAuthenticated([relay EXCEPT !.connecting = FALSE],
                                            answer, id)
  /\ UNCHANGED <<caspar, obs, codec>>

\* The callback of the heartbeat interval: sendHeartbeat() up to its await.
SessionHeartbeatTick ==
  /\ relay.heartbeatInterval /\ relay.middlewareId # 0
  /\ ~relay.heartbeatInFlight
  /\ relay' = [relay EXCEPT !.heartbeatInFlight = TRUE]
  /\ UNCHANGED <<caspar, obs, codec>>

SessionHeartbeatAnswered(answer) ==
  /\ relay.heartbeatInFlight
  /\ answer \in Answers(relay)
  /\ relay' = Supabase_sendHeartbeat([relay EXCEPT !.heartbeatInFlight = FALSE], answer)
  /\ UNCHANGED <<caspar, obs, codec>>

\* The callback of the retry interval up to its await.
SessionRetryTick ==
  /\ relay.retryInterval /\ relay.savedApiKey # "none"
  /\ ~relay.retryInFlight
  /\ relay' = [relay EXCEPT !.retryInFlight = TRUE]
  /\ UNCHANGED <<caspar, obs, codec>>

SessionRetryAnswered(answer, id) ==
  /\ relay.retryInFlight
  /\ answer \in Answers(relay)
  /\ relay' = Supabase_retry([relay EXCEPT !.retryInFlight = FALSE], answer, id)
  /\ UNCHANGED <<caspar, obs, codec>>

SessionDisconnect ==
  /\ ~relay.offlineInFlight
  /\ LET s1 == Supabase_disconnectBegin([relay EXCEPT !.disconnected = TRUE])
     IN  relay' = IF s1.middlewareId # 0
                  THEN [s1 EXCEPT !.offlineInFlight = TRUE]
                  ELSE Supabase_disconnectEnd(s1)
  /\ UNCHANGED <<caspar, obs, codec>>

SessionOfflineAnswered ==
  /\ relay.offlineInFlight
  /\ relay' = Supabase_disconnectEnd([relay EXCEPT !.offlineInFlight = FALSE])
  /\ UNCHANGED <<caspar, obs, codec>>

SessionPlatformSettles ==
  /\ ~relay.platformActive
  /\ relay' = [relay EXCEPT !.platformActive = TRUE]
  /\ UNCHANGED <<caspar, obs, codec>>

SessionCommand(cmd) ==
  /\ relay.channel # 0
  /\ \E connected \in BOOLEAN :
       relay' = [Supabase_onCommand(relay, cmd, connected) EXCEPT !.cmds = <<>>]
  /\ UNCHANGED <<caspar, obs, codec>>

SessionNext ==
  \/ \E apiKey \in ApiKeys : SessionConnect(apiKey)
  \/ \E answer \in {"error", "active", "inactive"}, id \in Ids :
       SessionAuthenticated(answer, id)
  \/ SessionHeartbeatTick
  \/ \E answer \in {"error", "active", "inactive"} : SessionHeartbeatAnswered(answer)
  \/ SessionRetryTick
  \/ \E answer \in {"error", "active", "inactive"}, id \in Ids :
       SessionRetryAnswered(answer, id)
  \/ SessionDisconnect
  \/ SessionOfflineAnswered
  \/ SessionPlatformSettles
  \/ \E cmd \in Commands : SessionCommand(cmd)

SessionInit == RelayInit

SessionSpec == SessionInit /\ [][SessionNext]_vars

\* Timers fire and RPCs are answered.
SessionFairSpec ==
  /\ SessionInit /\ [][SessionNext]_vars
  /\ WF_vars(SessionRetryTick)
  /\ WF_vars(\E answer \in {"error", "active", "inactive"}, id \in Ids :
               SessionRetryAnswered(answer, id))
  /\ WF_vars(\E answer \in {"error", "active", "inactive"}, id \in Ids :
               SessionAuthenticated(answer, id))
  /\ WF_vars(\E answer \in {"error", "active", "inactive"} :
               SessionHeartbeatAnswered(answer))

----------------------------------------------------------------------------
\* The teardown of the session with the device adapters alive: disconnect()
\* awaits its offline RPC while the status callbacks of the adapters go on
\* firing.

OfflineNext ==
  \/ \E apiKey \in ApiKeys : SessionConnect(apiKey)
  \/ \E answer \in {"error", "active", "inactive"}, id \in Ids :
       SessionAuthenticated(answer, id)
  \/ SessionDisconnect
  \/ SessionOfflineAnswered
  \/ StatusDeviceChanged
  \/ StatusPushDelivered
  \/ StatusPushFailed

OfflineSpec == SessionInit /\ [][OfflineNext]_vars

----------------------------------------------------------------------------
\* Parameter extraction of the router.  A JavaScript value is written as the
\* literal that denotes it; the record in `relay` is
\*   action   the case of the switch
\*   params   cmd.params, a field that is not supplied being "undefined"
\*   connected  what the adapter's isConnected() answers
\*   passed   the arguments handed to the adapter, <<>> when it is not called
\*   reply    "none" before the case runs, then "error" (adapter not
\*            connected) or "ok"

JsFalsy == {"undefined", "null", "false", "0", "''"}

\* a || b
JsOr(a, b) == IF a \in JsFalsy THEN b ELSE a

\* The values of a parameter under its first name (not supplied, supplied and
\* falsy, supplied) and under its synonym.
FirstNameValues(falsy) == {"undefined", falsy, "'a'"}
SynonymValues == {"undefined", "'b'"}

\* case 'obs_source_visibility': the arguments of setSourceVisibility.
handleOBSSourceVisibility(params) ==
  << JsOr(params.sceneName, params.scene),
     JsOr(params.sceneItemId, params.sourceId),
     IF params.visible # "undefined" THEN params.visible ELSE params.sceneItemEnabled >>

\* case 'vmix_set_text': the arguments of setText.
handleVMixSetText(params) ==
  << JsOr(params.inputKey, params.input),
     JsOr(params.selectedName, params.fieldName),
     JsOr(params.textValue, params.value) >>

ParamsObsSourceVisibility ==
  /\ relay.action = "obs_source_visibility" /\ relay.reply = "none"
  /\ relay' = IF ~relay.connected
               THEN [relay EXCEPT !.reply = "error"]
               ELSE [relay EXCEPT !.passed = handleOBSSourceVisibility(relay.params),
                                  !.reply = "ok"]
  /\ UNCHANGED <<caspar, obs, codec>>

ParamsVMixSetText ==
  /\ relay.action = "vmix_set_text" /\ relay.reply = "none"
  /\ relay' = IF ~relay.connected
               THEN [relay EXCEPT !.reply = "error"]
               ELSE [relay EXCEPT !.passed = handleVMixSetText(relay.params),
                                  !.reply = "ok"]
  /\ UNCHANGED <<caspar, obs, codec>>

ParamsNext == ParamsObsSourceVisibility \/ ParamsVMixSetText

ParamsInit ==
  /\ \E connected \in BOOLEAN :
     \/ \E p \in [sceneName : FirstNameValues("''"), scene : SynonymValues,
                    sceneItemId : FirstNameValues("0"), sourceId : SynonymValues,
                    visible : FirstNameValues("false"),
                    sceneItemEnabled : SynonymValues] :
          relay = [action |-> "obs_source_visibility", params |-> p,
                   passed |-> <<>>, connected |-> connected, reply |-> "none"]
     \/ \E p \in [inputKey : FirstNameValues("0"), input : SynonymValues,
                    selectedName : FirstNameValues("''"), fieldName : SynonymValues,
                    textValue : FirstNameValues("''"), value : SynonymValues] :
          relay = [action |-> "vmix_set_text", params |-> p,
                   passed |-> <<>>, connected |-> connected, reply |-> "none"]
  /\ caspar = 0 /\ obs = 0 /\ codec = 0

ParamsSpec == ParamsInit /\ [][ParamsNext]_vars

----------------------------------------------------------------------------
\* Claims about the playout supervisor.

PendingCalls == {c \in Calls : caspar.call[c] = "pending"}

\* C2: single-flight.  At most one playout call is outstanding at any time:
\* no command is written while an earlier one is neither answered nor
\* timed out.
C2_SingleFlight == Cardinality(PendingCalls) <= 1

\* C3: every issued playout call settles: by the time its own 5 s timer has
\* fired it has been resolved or rejected, so none stays pending forever.
C3_CallSettlesByDeadline ==
  \A c \in Calls : caspar.call[c] = "pending" => caspar.callTimer[c]

\* C6: reconnect convergence.  After an established connection is lost
\* unexpectedly the supervisor reaches Connected again without a manual
\* connect, the observer having seen connected=false and then connected=true.
C6_ReconnectConverges ==
  (caspar.mode = "lost") ~>
     (caspar.mode \in {"manual", "disconnected"} \/
      (caspar.mode = "up" /\ caspar.connected /\ caspar.observer = 2))

\* C7: while an established connection is lost (by socket close or error,
\* no disconnect() since) and not re-established, a reconnection attempt is
\* scheduled or under way, also after a failed attempt.
C7_ReconnectScheduled ==
  caspar.mode = "lost" =>
     (caspar.reconnectInterval \/ caspar.socket = "connecting")

\* C9: connect() always completes: its promise is resolved connected=true
\* once the connection is established and connected=false once the attempt
\* has errored or timed out.
C9_ConnectCompletes ==
  /\ caspar.attempt = "established" => caspar.connectPromise = "true"
  /\ caspar.attempt \in {"errored", "timedout"} => caspar.connectPromise = "false"

\* C10: disconnect() with a PendingCall registered rejects that call at once
\* with 'Disconnected', leaves no PendingCall registered and connected false.
C10_DisconnectRejectsPending ==
  [][(CasparDisconnectCall /\ caspar.pending # 0) =>
       /\ caspar'.call[caspar.pending] = "Disconnected"
       /\ caspar'.pending = 0
       /\ ~caspar'.connected]_vars

C10_Witness ==
  \E c \in Calls : caspar.call[c] = "Disconnected" /\ caspar.callTimer[c]

----------------------------------------------------------------------------
\* Claims about explicit disconnect.

\* C8: once disconnect() has completed, and until connect() is called
\* explicitly, no reconnect timer is pending (so no automatic connect attempt
\* is made) and the supervisor stays disconnected.
C8_DisconnectIsFinal ==
  obs.disconnected => (~obs.reconnectInterval /\ ~obs.connected)

----------------------------------------------------------------------------
\* Claims about the control channel and the command router.

ReceivedCmds == 1 .. Len(relay.cmds)

Issued(i) == {relay.cmds[i].responses[j] : j \in 1 .. Len(relay.cmds[i].responses)}

IsKnownAction(a) ==
  \/ a \in {<<"", "middleware_disable">>, <<"", "middleware_enable">>, <<"", "ping">>}
  \/ a[1] \in Prefixes /\ a[2] \in {ConnectName, OperationName(a[1])}

\* C1: a command other than middleware_enable that is received while the
\* session is suspended is never handed to the router, reaches no adapter,
\* and, when it carries a request_id, is answered with success=false and the
\* error "Middleware is suspended".
C1_SuspendGate ==
  \A i \in ReceivedCmds :
    (relay.cmds[i].suspendedAtReceipt
       /\ relay.cmds[i].action # <<"", "middleware_enable">>)
    => /\ ~relay.cmds[i].forwarded
       /\ relay.cmds[i].adapter = "none"
       /\ relay.cmds[i].isConnected = "unasked"
       /\ (relay.cmds[i].request_id
            => \E r \in Issued(i) :
                 ~r.success /\ r.error = "Middleware is suspended")

\* C4: a command that reaches the router with an action that is no known
\* namespace and operation reaches no adapter and, when it carries a
\* request_id, is answered with success=false and the error
\* "Unknown command: <action>".
C4_UnknownActionClosure ==
  \A i \in ReceivedCmds :
    (~relay.cmds[i].suspendedAtReceipt /\ ~IsKnownAction(relay.cmds[i].action))
    => /\ relay.cmds[i].adapter = "none"
       /\ (relay.cmds[i].request_id
            => \E r \in Issued(i) :
                 ~r.success /\ r.error = <<"Unknown command: ", relay.cmds[i].action>>)

\* C5: for a command without request_id no response envelope is published,
\* on the response channel or on the main channel.
C5_FireAndForget ==
  \A i \in ReceivedCmds :
    ~relay.cmds[i].request_id
    => \A r \in Issued(i) : r.state # "sent"

IsOperation(a) == a[1] \in Prefixes /\ a[2] = OperationName(a[1])

IsPing(a) == a = <<"", "ping">>

\* C11: a device operation routed while its adapter answers isConnected() =
\* false gets exactly one response, {request_id, success:false,
\* error:"<device> not connected"}, and no adapter call is made for it,
\* neither the operation nor a connect.
C11_NotConnected ==
  \A i \in ReceivedCmds :
    (IsOperation(relay.cmds[i].action) /\ relay.cmds[i].isConnected = "false")
    => /\ relay.cmds[i].adapter = "none"
       /\ Len(relay.cmds[i].responses) = 1
       /\ LET r == relay.cmds[i].responses[1]
          IN  /\ r.request_id = relay.cmds[i].request_id
              /\ ~r.success
              /\ r.data = "none"
              /\ r.error = <<DeviceName(relay.cmds[i].action[1]), " not connected">>

C11_Witness ==
  \E i \in ReceivedCmds :
    /\ relay.cmds[i].action = <<"obs_", "switch_scene">>
    /\ relay.cmds[i].request_id
    /\ relay.cmds[i].isConnected = "false"
    /\ \E r \in Issued(i) : r.state = "sent"

C13_PingNotForwarded ==
  \A i \in ReceivedCmds :
    IsPing(relay.cmds[i].action) => ~relay.cmds[i].forwarded

----------------------------------------------------------------------------
\* Claims about the control session.

DisableCommands == {cmd \in Commands : cmd.action = <<"", "middleware_disable">>}

EnableCommands == {cmd \in Commands : cmd.action = <<"", "middleware_enable">>}

\* C14: when a connect() is authenticated with active=true, then as it
\* returns the channel is the one named after the identity that this
\* authentication returned, the heartbeat timer runs, the session is not
\* suspended and the retry timer does not run.
C14_ActiveAfterConnect ==
  [][\A id \in Ids :
       SessionAuthenticated("active", id)
       => /\ relay'.channel = id
          /\ relay'.heartbeatInterval
          /\ ~relay'.suspended
          /\ ~relay'.retryInterval]_vars

\* C15: when a connect() is authenticated with active=false, then as it
\* returns the session is suspended, the heartbeat timer does not run, the
\* retry timer runs, and connect() reports success with suspended=true.
C15_SuspendedAfterConnect ==
  [][\A id \in Ids :
       SessionAuthenticated("inactive", id)
       => /\ relay'.suspended
          /\ ~relay'.heartbeatInterval
          /\ relay'.retryInterval
          /\ relay'.connectResult = "suspended"]_vars

C15_Witness ==
  /\ relay.connectResult = "suspended"
  /\ relay.suspended /\ relay.retryInterval /\ ~relay.heartbeatInterval
  /\ relay.channel = 0

C17_SuspendFromActive ==
  [][(/\ IsActive(relay)
      /\ \/ \E cmd \in DisableCommands : SessionCommand(cmd)
         \/ SessionHeartbeatAnswered("inactive"))
     => /\ ~relay'.heartbeatInterval
        /\ relay'.retryInterval
        /\ relay'.suspended
        /\ relay'.channel = relay.channel]_vars

C17_Witness ==
  /\ relay.suspended /\ relay.channel # 0
  /\ relay.retryInterval /\ ~relay.heartbeatInterval
  /\ relay.connectResult = "active"

\* C18: when a suspended session whose channel is subscribed receives
\* middleware_enable, or its retry authentication is answered active,
\* suspended becomes false, the retry timer is stopped, the heartbeat timer
\* runs and the channel is the one it was.
C18_ResumeFromSuspended ==
  [][(/\ relay.suspended /\ relay.channel # 0
      /\ \/ \E cmd \in EnableCommands : SessionCommand(cmd)
         \/ \E id \in Ids : SessionRetryAnswered("active", id))
     => /\ ~relay'.suspended
        /\ ~relay'.retryInterval
        /\ relay'.heartbeatInterval
        /\ relay'.channel = relay.channel]_vars

C18_Witness ==
  /\ relay.connectResult = "suspended"
  /\ IsActive(relay)

\* C19: from disconnect() until the next explicit connect() the heartbeat
\* timer and the retry timer do not run and no channel is subscribed.
C19_DisconnectStopsAll ==
  relay.disconnected
  => /\ ~relay.heartbeatInterval
     /\ ~relay.retryInterval
     /\ relay.channel = 0

----------------------------------------------------------------------------
\* Claims about the framing.

\* C20: a status line "NNN message" and its terminator, delivered in pieces
\* of any sizes while a call is pending, yield exactly one frame, with the
\* code and the message of the line, and they yield it when the last byte
\* has arrived, not before.
C20_FramingUnderFragmentation ==
  IF codec.rest = <<>>
  THEN codec.frames = <<codec.sent>> /\ codec.responseBuffer = <<>>
  ELSE codec.frames = <<>>

C20_Witness ==
  /\ codec.rest = <<"LF">>
  /\ codec.responseBuffer # <<>>
  /\ codec.responseBuffer[Len(codec.responseBuffer)] = "CR"
  /\ codec.sent.message # <<>>

(***************************************************************************)
(* C21.  The decoder never consumes bytes of a frame that is not complete: *)
(* the bytes delivered so far are exactly the extracted lines, each with   *)
(* its terminator, followed by the accumulation buffer (extraction removes *)
(* only the extracted frame's bytes and nothing is discarded), and no      *)
(* complete line stays in the buffer once its terminator has arrived.      *)
(***************************************************************************)
RECURSIVE Framed(_)
Framed(ls) == IF ls = <<>> THEN <<>> ELSE Head(ls) \o Terminator \o Framed(Tail(ls))

C21_DecoderKeepsBytes ==
  /\ codec.delivered = Framed(codec.extracted) \o codec.responseBuffer
  /\ IndexOfTerminator(codec.responseBuffer) = 0


(***************************************************************************)
(* C22.  Status code mapping: once the device's status line with code c    *)
(* has been decoded and the caspar_ operation case has answered, the       *)
(* response has success = TRUE exactly when 200 <= c <= 299, and it is the *)
(* response of the decoded frame (the call resolved with the line's code   *)
(* and message; the response carries no error of the transport).           *)
(***************************************************************************)
C22_StatusCodeMapping ==
  \A i \in 1 .. Len(codec.responses) :
    /\ codec.frames = <<codec.sent>>
    /\ codec.responses[i].success = (200 <= codec.sent.code /\ codec.sent.code <= 299)
    /\ codec.responses[i].error = "none"

\* The code 300 has been answered with success = FALSE.
C22_Witness ==
  /\ codec.responses # <<>>
  /\ codec.sent.code = 300
  /\ ~codec.responses[1].success

(***************************************************************************)
(* C23.  Router error containment: when the adapter call of a routed       *)
(* command that has a request_id throws or rejects, the handler's catch    *)
(* block turns the error into exactly one response, {request_id,           *)
(* success:false, error:<the error's message>}, handed to the control      *)
(* layer, and the handler ends.                                            *)
(***************************************************************************)
C23_ErrorContainment ==
  \A i \in ReceivedCmds :
    (relay.cmds[i].request_id /\ relay.cmds[i].adapter = "threw")
    => /\ Len(relay.cmds[i].responses) = 1
       /\ LET r == relay.cmds[i].responses[1]
          IN  /\ r.request_id
              /\ ~r.success
              /\ r.data = "none"
              /\ r.error = "adapter error"

C23_Witness ==
  \E i \in ReceivedCmds :
    /\ relay.cmds[i].action = <<"vmix_", "cut">>
    /\ relay.cmds[i].request_id
    /\ relay.cmds[i].adapter = "threw"
    /\ \E r \in Issued(i) : r.state = "sent" /\ r.error = "adapter error"

(***************************************************************************)
(* C24.  Every response handed to the relay carries an error string when   *)
(* its success is FALSE and carries no error when its success is TRUE.     *)
(***************************************************************************)
C24_ResultShape ==
  \A i \in ReceivedCmds :
    \A r \in Issued(i) :
      /\ (~r.success => r.error # "none")
      /\ (r.success => r.error = "none")

(***************************************************************************)
(* C25.  Response destination: every response of a command is handed to   *)
(* the channel the command names in response_channel when it names one,   *)
(* and to the main channel when it names none; and a command with a       *)
(* request_id and no response_channel that the control layer answers      *)
(* itself (middleware_disable, middleware_enable, ping, any command        *)
(* received while suspended) has its response on the main channel.         *)
(***************************************************************************)
C25_ResponseDestination ==
  \A i \in ReceivedCmds :
    LET cmd == relay.cmds[i]
    IN  /\ \A r \in Issued(i) :
             r.dest = IF cmd.response_channel THEN "response_channel" ELSE "main"
        /\ ( /\ cmd.request_id /\ ~cmd.response_channel
             /\ \/ cmd.suspendedAtReceipt
                \/ cmd.action[1] = "" )
           => \E r \in Issued(i) : r.dest = "main"

(***************************************************************************)
(* C26.  Status notification of the playout supervisor, as stated: the     *)
(* observer is invoked after a write of the connected flag before any      *)
(* other state of the supervisor has changed, here: with the pending call  *)
(* as the write found it.                                                  *)
(***************************************************************************)
C26_NotifiedBeforeOtherChange == ~caspar.rejectedBeforeNotify

\* C26 at the grain of the handlers: every handler that writes the
\* connected flag (connect success, socket close, socket error, connect
\* timeout, explicit disconnect) invokes the status observer before it
\* returns, with a snapshot whose connected value is the new one; so between
\* handlers the observer's last snapshot always agrees with the flag.
C26_ObserverAgrees ==
  IF caspar.lastNotified = "none" THEN ~caspar.connected
  ELSE (caspar.lastNotified = "true") = caspar.connected

\* The connection was lost with a call pending: the call was rejected, and
\* the observer has seen connected=false.
C26_Witness ==
  /\ caspar.mode = "lost"
  /\ ~caspar.connected
  /\ caspar.lastNotified = "false"
  /\ caspar.rejectedBeforeNotify

(***************************************************************************)
(* C27.  Every device status notification that occurs while the control    *)
(* session is authenticated results in an aggregated status push to the    *)
(* relay that carries the devices' connected flags of that moment (the     *)
(* push by which the relay's view comes to equal the devices' state).      *)
(***************************************************************************)
C27_NotificationPushes ==
  [][(relay.middlewareId # 0 /\ relay'.devices # relay.devices)
       => relay'.devices \in relay'.pushes]_vars

(***************************************************************************)
(* C28.  When a playout call is rejected with "Command timeout" its        *)
(* pending slot is cleared in the same step: no resolver or rejecter       *)
(* remains registered.  A call issued afterwards is registered and         *)
(* written, and the next response frame that arrives resolves it.          *)
(***************************************************************************)
C28_TimeoutClearsPending ==
  [][ /\ \A c \in Calls :
           (caspar.call[c] = "pending" /\ caspar'.call[c] = "Command timeout")
           => caspar'.pending = 0
      /\ \A c \in Calls :
           ( /\ \E d \in Calls : caspar.call[d] = "Command timeout"
             /\ caspar.pending = c
             /\ caspar.socket = "open" /\ caspar'.socket = "open"
             /\ caspar.wire # <<>> /\ caspar'.wire = Tail(caspar.wire) )
           => (caspar'.call[c] = "resolved" /\ caspar'.pending = 0) ]_vars

\* The first call timed out and the second, issued after it on the same
\* connection, has been resolved by a frame.
C28_Witness ==
  /\ caspar.call[1] = "Command timeout"
  /\ caspar.call[2] = "resolved"
  /\ caspar.mode = "up" /\ caspar.losses = MaxLosses
  /\ caspar.pending = 0

(***************************************************************************)
(* C29.  Lookup before mutate: for obs_show_source, obs_hide_source and    *)
(* obs_toggle_source addressed by sourceName, the mutating adapter call is *)
(* made only after the scene-item id lookup has been made and has given    *)
(* the id; when the lookup fails no mutating call is made and the command  *)
(* (when it has a request_id) gets exactly one response, with              *)
(* success = FALSE.                                                        *)
(***************************************************************************)
AddressedBySourceName(cmd) ==
  /\ cmd.action[1] = "obs_" /\ cmd.action[2] \in SourceActions
  /\ cmd.params.sourceName
  /\ (cmd.action[2] = "toggle_source" => ~cmd.params.sceneItemId)

Mutated(cmd) ==
  \E k \in 1 .. Len(cmd.calls) : cmd.calls[k] = MutatingCall(cmd.action[2])

C29_LookupBeforeMutate ==
  \A i \in ReceivedCmds :
    LET cmd == relay.cmds[i]
    IN  AddressedBySourceName(cmd) =>
          /\ (Mutated(cmd) =>
                (cmd.lookup = "found" /\ cmd.calls[1] = "getSceneItemId"))
          /\ (cmd.lookup = "failed" =>
                /\ ~Mutated(cmd)
                /\ (cmd.request_id =>
                      (Len(cmd.responses) = 1 /\ ~cmd.responses[1].success)))

\* A toggle by sourceName whose lookup failed has been answered with an
\* error on the main channel.
C29_Witness ==
  \E i \in ReceivedCmds :
    /\ relay.cmds[i].action = <<"obs_", "toggle_source">>
    /\ AddressedBySourceName(relay.cmds[i])
    /\ relay.cmds[i].request_id
    /\ relay.cmds[i].lookup = "failed"
    /\ \E r \in Issued(i) : r.state = "sent" /\ ~r.success

(***************************************************************************)
(* C30.  Synonym priority: a parameter supplied under its first name is    *)
(* the value passed to the adapter whatever its synonym holds, and the     *)
(* synonym is passed only when the first name is not supplied: sceneName   *)
(* over scene, sceneItemId over sourceId, visible over sceneItemEnabled    *)
(* (obs_source_visibility); inputKey over input, selectedName over         *)
(* fieldName, textValue over value (vmix_set_text).                        *)
(***************************************************************************)
Preferred(first, synonym) == IF first # "undefined" THEN first ELSE synonym

C30_SynonymPriority ==
  relay.reply = "ok" =>
    LET p == relay.params
    IN  IF relay.action = "obs_source_visibility"
        THEN relay.passed = << Preferred(p.sceneName, p.scene),
                               Preferred(p.sceneItemId, p.sourceId),
                               Preferred(p.visible, p.sceneItemEnabled) >>
        ELSE relay.passed = << Preferred(p.inputKey, p.input),
                               Preferred(p.selectedName, p.fieldName),
                               Preferred(p.textValue, p.value) >>

----------------------------------------------------------------------------
\* Claims about calls in flight on the playout connection.

(***************************************************************************)
(* C31.  End-to-end response: every routed playout command is eventually   *)
(* answered.  The handler answers when the adapter call it awaits settles  *)
(* (at once when the adapter is not connected), so every call that is      *)
(* pending is eventually resolved or rejected, whatever commands and       *)
(* device events interleave with it.                                       *)
(***************************************************************************)
C31_CommandAnswered ==
  \A c \in Calls : (caspar.call[c] = "pending") ~> (caspar.call[c] # "pending")

(***************************************************************************)
(* C32.  Response correlation: a decoded response frame resolves only the  *)
(* call whose request elicited it.  The frame a data event delivers        *)
(* answers the oldest request the server has not answered yet; the call    *)
(* it resolves is the registered one.  Stated here for the case the claim  *)
(* singles out: the frame of a call that already timed out or was rejected *)
(* (a call no longer pending) resolves no later call.                      *)
(***************************************************************************)
C32_ResponseCorrelation ==
  [][(CasparData /\ caspar.pending # 0 /\
      caspar.call[Head(caspar.wire)] # "pending") =>
       Head(caspar.wire) = caspar.pending]_vars

(***************************************************************************)
(* C33.  A playout call is rejected with 'Command timeout' only by its own *)
(* 5 s timer: when the timer of call c fires, no call other than c becomes *)
(* rejected with 'Command timeout'.  Stated for a timer whose own call has *)
(* already settled, so that the other call is a later one.                 *)
(***************************************************************************)
C33_OwnTimerOnly ==
  [][\A c \in Calls :
       (CasparCommandTimeout /\ caspar.callTimer[c] /\ ~caspar'.callTimer[c] /\
        caspar.call[c] # "pending") =>
         \A d \in Calls \ {c} :
            caspar'.call[d] = "Command timeout" => caspar.call[d] = "Command timeout"]_vars

(***************************************************************************)
(* C34.  The 5 s connect timeout only bounds a connection attempt: when    *)
(* the socket's timeout fires on an established connection the supervisor  *)
(* stays connected.                                                        *)
(***************************************************************************)
C34_TimeoutBoundsAttemptOnly ==
  [][(CasparSocketTimeout /\ caspar.socket = "open" /\ caspar.connected) =>
       caspar'.connected]_vars

(***************************************************************************)
(* C35.  In every reachable state isConnected() = true implies that the    *)
(* supervisor's current socket is the established one: while connect() is  *)
(* replacing a connection isConnected() is false until the new socket is   *)
(* established.                                                            *)
(***************************************************************************)
C35_ConnectedMeansEstablished ==
  Caspar_isConnected(caspar) => caspar.socket = "open"

----------------------------------------------------------------------------
\* Claims about the timers and the teardown of the control session.

(***************************************************************************)
(* C36.  Timer/gate invariant: the heartbeat timer runs only while         *)
(* suspended is false, the retry-authenticate timer runs only while        *)
(* suspended is true, and the two never run at the same time.              *)
(***************************************************************************)
C36_TimerGate ==
  /\ relay.heartbeatInterval => ~relay.suspended
  /\ relay.retryInterval => relay.suspended
  /\ ~(relay.heartbeatInterval /\ relay.retryInterval)

\* Suspended on a live channel, the retry timer running: the session was
\* active, with its heartbeat running, before the suspension.
C36_Witness ==
  /\ relay.suspended /\ relay.retryInterval /\ ~relay.heartbeatInterval
  /\ relay.channel # 0

(***************************************************************************)
(* C37.  After disconnect() has completed and until the next explicit      *)
(* connect() the session stays destroyed: the identity stays cleared       *)
(* (isConnected() = false) and suspended stays false, also when an         *)
(* authenticate or heartbeat RPC that was in flight at disconnect() is     *)
(* answered afterwards.                                                    *)
(***************************************************************************)
C37_StaysDestroyed ==
  (relay.disconnected /\ ~relay.offlineInFlight)
  => /\ relay.middlewareId = 0
     /\ ~Supabase_isConnected(relay)
     /\ ~relay.suspended

(***************************************************************************)
(* C38.  A connect() whose authentication fails reports an error and       *)
(* leaves the session as it was before the attempt: identity, suspended    *)
(* flag, channel, heartbeat and retry timers, and the credential of the    *)
(* retry-authenticate loop.  Stated for a session that already held a      *)
(* credential when connect() was called.                                   *)
(***************************************************************************)
C38_FailedConnectChangesNothing ==
  [][(relay.connecting /\ ~relay'.connecting /\ relay.keyBefore # "none" /\
      relay'.connectResult = "error")
     => /\ relay'.middlewareId = relay.middlewareId
        /\ relay'.suspended = relay.suspended
        /\ relay'.channel = relay.channel
        /\ relay'.heartbeatInterval = relay.heartbeatInterval
        /\ relay'.retryInterval = relay.retryInterval
        /\ relay'.savedApiKey = relay.keyBefore]_vars

(***************************************************************************)
(* C39.  Offline is final: once disconnect() has sent the 'offline' status *)
(* no status update with status 'online' is sent until the next connect(). *)
(* Stated for the case the claim names: no 'online' update is sent while   *)
(* disconnect() awaits the answer of its offline RPC.                      *)
(***************************************************************************)
C39_OfflineIsFinal ==
  [][(relay.disconnected /\ relay.offlineInFlight) =>
       relay'.pushes \subseteq relay.pushes]_vars

----------------------------------------------------------------------------
\* Claims about repeated suspend and resume signals.

\* The suspension state a signal may act on.
SuspensionUnchanged ==
  /\ relay'.suspended = relay.suspended
  /\ relay'.suspendReason = relay.suspendReason
  /\ relay'.retryInterval = relay.retryInterval
  /\ relay'.heartbeatInterval = relay.heartbeatInterval
  /\ relay'.onSuspendInfo = relay.onSuspendInfo

(***************************************************************************)
(* C40.  Suspend and resume are idempotent: a suspend signal               *)
(* (middleware_disable, or a heartbeat answered active=false) received     *)
(* while suspended leaves suspendReason, the retry timer and the heartbeat *)
(* as they are and does not invoke the suspend observer; a resume signal   *)
(* (middleware_enable) received while not suspended leaves suspended and   *)
(* both timers as they are and does not invoke the observer.  That is: a   *)
(* step that changes any of these is none of those signals.                *)
(***************************************************************************)
C40_SignalsIdempotent ==
  [][SuspensionUnchanged \/
     ~ \/ relay.suspended /\ \E cmd \in DisableCommands : SessionCommand(cmd)
       \/ relay.suspended /\ SessionHeartbeatAnswered("inactive")
       \/ ~relay.suspended /\ \E cmd \in EnableCommands : SessionCommand(cmd)]_vars

\* Suspended by a command, a later suspend signal having been ignored.
C40_Witness ==
  /\ relay.suspended /\ relay.signalIgnored
  /\ relay.suspendReason = "by_command" /\ relay.retryInterval

====
